---------------------------- MODULE Spec2Model ----------------------------
(*************************************************************************)
(* Model of plugins/inventory/libvirt.py: InventoryModule.parse, the     *)
(* libvirt inventory source.  One discovery pass reads the options,      *)
(* opens the hypervisor connection, lists the domains and, for every     *)
(* domain the filter keeps, writes a host, an alias group and the host   *)
(* variables into the inventory.                                          *)
(*                                                                        *)
(* Strings that the code inspects character by character (domain names   *)
(* and uuids, tested by re.match) are sequences of one-character         *)
(* strings; a regular expression is a sequence of atoms.                  *)
(*************************************************************************)
EXTENDS Integers, Sequences, FiniteSets, TLC

(* Longest domain list connection.listAllDomains() returns in the model. *)
MaxDomains == 2

None == "None"

(***************************** configuration *****************************)

(* Values of the 'uri' option: absent, or a connection URI. *)
UriOptions == {None, "qemu:///system"}

(* choices of the 'inventory_hostname' option *)
InventoryHostnameChoices == {"name", "uuid"}

(* A regular expression: atoms of a character ("." is any character) *)
(* with or without a trailing star.                                   *)
Lit(c) == [ch |-> c, star |-> FALSE]
Star(c) == [ch |-> c, star |-> TRUE]

(* the default filter ".*" *)
DefaultFilter == << Star(".") >>

(* Values of the 'filter' option: ".*" and "a". *)
FilterOptions == {DefaultFilter, << Lit("a") >>}

(* Driver kinds connection.getType() reports. *)
DriverKinds == {"LXC", "QEMU", "Xen"}

(****************************** hypervisor *******************************)

(* Domain names; not unique across domains. *)
Names == { <<"a", "b">>, <<"b", "a">> }

(* Domain uuids; unique across domains. *)
Uuids == { <<"a", "u">>, <<"u", "a">>, <<"u", "b">> }

(* What interfaceAddresses() returns: an ordered mapping, kept as the   *)
(* sequence of its items, iface name -> info.  'addrs' may be missing.  *)
Addr(a) == [addr |-> a, prefix |-> 24]

RawNoInterfaces == << >>

RawNoAddress ==
    << [iface |-> "eth0", info |-> [hwaddr |-> "AA:BB"]],
       [iface |-> "eth1", info |-> [hwaddr |-> "CC:DD", addrs |-> << >>]] >>

RawSecondIface ==
    << [iface |-> "eth0", info |-> [hwaddr |-> "AA:BB", addrs |-> << >>]],
       [iface |-> "eth1", info |-> [hwaddr |-> "CC:DD",
                                    addrs |-> << Addr("10.0.0.5"), Addr("10.0.0.6") >>]] >>

RawBothIfaces ==
    << [iface |-> "eth0", info |-> [hwaddr |-> "AA:BB",
                                    addrs |-> << Addr("192.168.1.7") >>]],
       [iface |-> "eth1", info |-> [hwaddr |-> "CC:DD",
                                    addrs |-> << Addr("192.168.1.8") >>]] >>

RawMaps == {RawNoInterfaces, RawNoAddress, RawSecondIface, RawBothIfaces}

(* A domain: server.name(), server.UUIDString() and its interface data. *)
Domains == [name : Names, uuid : Uuids, raw : RawMaps]

(* Domain lists of at most MaxDomains domains with pairwise distinct uuids. *)
DomainLists ==
    UNION { { l \in [1..n -> Domains] :
                \A i, j \in 1..n : i # j => l[i].uuid # l[j].uuid } : n \in 0..MaxDomains }

VARIABLES
    pc,                     \* position in parse()
    error,                  \* the exception parse() raised, None if none
    import_error,           \* LIBVIRT_IMPORT_ERROR is set
    uri,                    \* option 'uri'
    inventory_hostname,     \* option 'inventory_hostname'
    use_connection_plugin,  \* option 'use_connection_plugin'
    filter,                 \* option 'filter'
    strict,                 \* option 'strict'
    open_calls,             \* number of libvirt.open() calls made
    connection,             \* driver kind of the open connection, None if none
    conn_open,              \* the hypervisor connection is held open
    connection_plugin,      \* plugin mapped from the driver kind
    servers,                \* result of connection.listAllDomains()
    listed,                 \* listAllDomains() has been called
    idx,                    \* index of the next server of the for loop
    fetched,                \* per iteration: 0 filtered out, -1 lookupByName
                            \* raised, j > 0 lookupByName returned servers[j]
    hosts,                  \* inventory.hosts (names)
    groups,                 \* inventory.groups: group name -> child hosts
    hostvars                \* inventory.hosts[h].vars

vars == << pc, error, import_error, uri, inventory_hostname,
           use_connection_plugin, filter, strict, open_calls, connection,
           conn_open, connection_plugin, servers, listed, idx, fetched,
           hosts, groups, hostvars >>

config == << uri, inventory_hostname, use_connection_plugin, filter, strict >>
inventory == << hosts, groups, hostvars >>

(******************************* re.match ********************************)

AtomMatches(atom, c) == atom.ch = "." \/ atom.ch = c

(* Number of leading characters of s the atom accepts. *)
RECURSIVE Run(_, _)
Run(atom, s) ==
    IF s # << >> /\ AtomMatches(atom, Head(s)) THEN 1 + Run(atom, Tail(s)) ELSE 0

Drop(s, k) == SubSeq(s, k + 1, Len(s))

(* The backtracking matcher: does pat match at the start of s. *)
RECURSIVE MatchHere(_, _)
MatchHere(pat, s) ==
    IF pat = << >> THEN TRUE
    ELSE IF Head(pat).star
         THEN \E k \in 0..Run(Head(pat), s) : MatchHere(Tail(pat), Drop(s, k))
         ELSE /\ s # << >>
              /\ AtomMatches(Head(pat), Head(s))
              /\ MatchHere(Tail(pat), Tail(s))

(* re.search in place of re.match: the pattern matches at some position. *)
re_search(pattern, string) ==
    \E k \in 0..Len(string) : MatchHere(pattern, Drop(string, k))

(* re.match(pattern, string) is not None *)
re_match(pattern, string) == MatchHere(pattern, string)

(**************************** per-domain logic ***************************)

(* lines 119-125: the domain passes the filter *)
ServerMatches(server, policy, pattern) ==
    IF policy = "uuid" THEN re_match(pattern, server.uuid)
                       ELSE re_match(pattern, server.name)

(* lines 127-132 *)
InventoryHostname(server, policy) ==
    IF policy = "uuid" THEN server.uuid ELSE server.name

(* The alias taken from the same field as the hostname. *)
AliasSameField(server, policy) ==
    IF policy = "name" THEN server.name ELSE server.uuid

(* lines 134-139 *)
InventoryHostnameAlias(server, policy) ==
    IF policy = "name" THEN server.uuid ELSE server.name

(* The mapping with a default plugin for the other driver kinds. *)
ConnectionPluginWithDefault(kind) ==
    IF kind = "LXC" THEN "community.libvirt.libvirt_lxc"
    ELSE "community.libvirt.libvirt_qemu"

(* lines 110-113: dict({...}).get(connection.getType()) *)
ConnectionPluginOf(kind) ==
    IF kind = "LXC" THEN "community.libvirt.libvirt_lxc"
    ELSE IF kind = "QEMU" THEN "community.libvirt.libvirt_qemu"
    ELSE None

(* set_variable that keeps the value of a key already present. *)
SetVariableIfAbsent(hv, key, value) ==
    [k \in DOMAIN hv \cup {key} |->
        IF k \in DOMAIN hv THEN hv[k] ELSE value]

(* inventory.set_variable(host, key, value) on the host's vars *)
SetVariable(hv, key, value) ==
    [k \in DOMAIN hv \cup {key} |-> IF k = key THEN value ELSE hv[k]]

(* The condition without the test that ansible_host is not yet set. *)
ShouldSetAnsibleHostAlways(ucp, info, hv) ==
    ~ucp /\ Len(info.addrs) >= 1

(* line 164-165: the condition under which ansible_host is written *)
ShouldSetAnsibleHost(ucp, info, hv) ==
    /\ ~ucp
    /\ Len(info.addrs) >= 1
    /\ "ansible_host" \notin DOMAIN hv

(* lines 150-170: the loop over the items of the interface mapping;     *)
(* st = [ifaces, hv] is the ifaces dict built so far and the host vars. *)
RECURSIVE IfaceLoop(_, _, _)
IfaceLoop(items, ucp, st) ==
    IF items = << >> THEN st
    ELSE LET iface == Head(items).iface
             info  == Head(items).info
             hasAddrs == "addrs" \in DOMAIN info
             entry == [hwaddr |-> info.hwaddr,
                       addrs  |-> IF hasAddrs THEN info.addrs ELSE << >>]
             ifaces1 == [k \in DOMAIN st.ifaces \cup {iface} |->
                            IF k = iface THEN entry ELSE st.ifaces[k]]
             hv1 == IF hasAddrs /\ ShouldSetAnsibleHost(ucp, info, st.hv)
                    THEN SetVariable(st.hv, "ansible_host", info.addrs[1].addr)
                    ELSE st.hv
         IN IfaceLoop(Tail(items), ucp, [ifaces |-> ifaces1, hv |-> hv1])

EmptyDict == [k \in {} |-> None]

(* lines 172-182: the connection-plugin variables *)
SetConnectionVars(hv, ucp, plugin, u) ==
    IF ucp /\ plugin # None
    THEN SetVariable(SetVariable(hv, "ansible_libvirt_uri", u),
                     "ansible_connection", plugin)
    ELSE hv

(* lines 148-188: the host's vars after the facts of 'raw' are written *)
WriteHostVars(hv, raw, ucp, plugin, u) ==
    LET st == IfaceLoop(raw, ucp, [ifaces |-> EmptyDict, hv |-> hv])
    IN SetVariable(SetConnectionVars(st.hv, ucp, plugin, u),
                   "ansible_libvirt_ifaces", st.ifaces)

(* connection.lookupByName(name): a listed domain of that name, or 0 *)
(* for the libvirtError raised when no such domain is found any more.  *)
LookupByName(name) ==
    {0} \cup { j \in 1..Len(servers) : servers[j].name = name }

(******************************** actions ********************************)

Init ==
    /\ pc = "NotStarted"
    /\ error = None
    /\ import_error \in BOOLEAN
    /\ uri = None
    /\ inventory_hostname = "name"
    /\ use_connection_plugin = TRUE
    /\ filter = DefaultFilter
    /\ strict = FALSE
    /\ open_calls = 0
    /\ connection = None
    /\ conn_open = FALSE
    /\ connection_plugin = None
    /\ servers = << >>
    /\ listed = FALSE
    /\ idx = 1
    /\ fetched = << >>
    /\ hosts = {}
    /\ groups = EmptyDict
    /\ hostvars = EmptyDict

(* lines 80-95: the import check, then the options are consumed *)
ConsumeOptions ==
    /\ pc = "NotStarted"
    /\ IF import_error
       THEN /\ pc' = "Failed"
            /\ error' = "libvirt-python must be installed to use this plugin"
            /\ UNCHANGED config
       ELSE /\ pc' = "OptionsRead"
            /\ uri' \in UriOptions
            /\ inventory_hostname' \in InventoryHostnameChoices
            /\ use_connection_plugin' \in BOOLEAN
            /\ filter' \in FilterOptions
            /\ strict' \in BOOLEAN
            /\ UNCHANGED error
    /\ UNCHANGED << import_error, open_calls, connection, conn_open,
                    connection_plugin, servers, listed, idx, fetched, inventory >>

(* The uri option is not checked. *)
CheckUriSkipped ==
    /\ pc = "OptionsRead"
    /\ pc' = "UriGiven"
    /\ UNCHANGED << error, import_error, config, open_calls, connection, conn_open,
                    connection_plugin, servers, listed, idx, fetched, inventory >>

(* lines 97-99 *)
CheckUri ==
    /\ pc = "OptionsRead"
    /\ IF uri = None
       THEN pc' = "Failed" /\ error' = "hypervisor uri not given"
       ELSE pc' = "UriGiven" /\ UNCHANGED error
    /\ UNCHANGED << import_error, config, open_calls, connection, conn_open,
                    connection_plugin, servers, listed, idx, fetched, inventory >>

(* lines 101-113: libvirt.open(uri) yields a connection or nothing *)
LibvirtOpen ==
    /\ pc = "UriGiven"
    /\ open_calls' = open_calls + 1
    /\ \E handle \in DriverKinds \cup {None} :
         IF handle = None
         THEN /\ pc' = "Failed"
              /\ error' = "hypervisor connection failure"
              /\ UNCHANGED << connection, conn_open, connection_plugin >>
         ELSE /\ pc' = "Connected"
              /\ connection' = handle
              /\ conn_open' = TRUE
              /\ connection_plugin' =
                    IF use_connection_plugin THEN ConnectionPluginOf(handle) ELSE None
              /\ UNCHANGED error
    /\ UNCHANGED << import_error, config, servers, listed, idx, fetched, inventory >>

(* line 118: connection.listAllDomains() *)
ListAllDomains ==
    /\ pc = "Connected"
    /\ servers' \in DomainLists
    /\ listed' = TRUE
    /\ idx' = 1
    /\ pc' = "Loop"
    /\ UNCHANGED << error, import_error, config, open_calls, connection, conn_open,
                    connection_plugin, fetched, inventory >>

(* lines 118-215: one iteration of the for loop *)
ForServer ==
    /\ pc = "Loop"
    /\ idx <= Len(servers)
    /\ LET server == servers[idx]
           hostname == InventoryHostname(server, inventory_hostname)
           alias == InventoryHostnameAlias(server, inventory_hostname)
           \* lines 143-145: add_host, add_group, add_child
           hosts1 == hosts \cup {hostname}
           hostvars1 == [h \in hosts1 |->
                           IF h \in hosts THEN hostvars[h] ELSE EmptyDict]
           groups1 == [g \in DOMAIN groups \cup {alias} |->
                         IF g = alias
                         THEN (IF g \in DOMAIN groups THEN groups[g] ELSE {})
                              \cup {hostname}
                         ELSE groups[g]]
       IN IF ~ServerMatches(server, inventory_hostname, filter)
          THEN \* line 125: continue
               /\ idx' = idx + 1
               /\ fetched' = Append(fetched, 0)
               /\ UNCHANGED << pc, error, inventory >>
          ELSE /\ hosts' = hosts1
               /\ groups' = groups1
               /\ \E j \in LookupByName(server.name) :
                    IF j = 0
                    THEN \* lines 150-151 raise
                         /\ fetched' = Append(fetched, -1)
                         /\ hostvars' = hostvars1
                         /\ pc' = "Failed"
                         /\ error' = "libvirtError: Domain not found"
                         /\ UNCHANGED idx
                    ELSE /\ fetched' = Append(fetched, j)
                         /\ hostvars' =
                              [hostvars1 EXCEPT ![hostname] =
                                 WriteHostVars(@, servers[j].raw,
                                               use_connection_plugin,
                                               connection_plugin, uri)]
                         \* lines 194-215: the grouping collaborators raise
                         \* only in strict mode
                         /\ \E raised \in (IF strict THEN BOOLEAN ELSE {FALSE}) :
                              IF raised
                              THEN /\ pc' = "Failed"
                                   /\ error' = "AnsibleError: could not compose"
                                   /\ UNCHANGED idx
                              ELSE /\ idx' = idx + 1
                                   /\ UNCHANGED << pc, error >>
    /\ UNCHANGED << import_error, config, open_calls, connection, conn_open,
                    connection_plugin, servers, listed >>

(* line 118: the domain list is exhausted, parse() returns *)
ForEnd ==
    /\ pc = "Loop"
    /\ idx > Len(servers)
    /\ pc' = "Done"
    /\ UNCHANGED << error, import_error, config, open_calls, connection, conn_open,
                    connection_plugin, servers, listed, idx, fetched, inventory >>

Next ==
    \/ ConsumeOptions
    \/ CheckUri
    \/ LibvirtOpen
    \/ ListAllDomains
    \/ ForServer
    \/ ForEnd

Spec == Init /\ [][Next]_vars

(************************* vocabulary of the claims ***********************)

(* The pass has ended: parse() returned or raised. *)
Ended == pc \in {"Done", "Failed"}

(* Iterations the for loop has run so far. *)
Iterations == 1..Len(fetched)

(* Iteration i passed the filter / wrote the host's variables. *)
Kept(i) == fetched[i] # 0
Processed(i) == fetched[i] > 0

(* Primary key and alias key of listed domain i under the configured policy. *)
PrimaryKey(i) ==
    IF inventory_hostname = "name" THEN servers[i].name ELSE servers[i].uuid
AliasKey(i) ==
    IF inventory_hostname = "name" THEN servers[i].uuid ELSE servers[i].name

(* The field the filter is applied to. *)
FilterField(i) ==
    IF inventory_hostname = "name" THEN servers[i].name ELSE servers[i].uuid

(* The word w belongs to the language of the regular expression pat: w  *)
(* splits into one segment per atom, a plain atom taking one character  *)
(* it accepts and a starred atom any run of characters it accepts.      *)
InLanguage(pat, w) ==
    \E cut \in [0..Len(pat) -> 0..Len(w)] :
        /\ cut[0] = 0
        /\ cut[Len(pat)] = Len(w)
        /\ \A j \in 1..Len(pat) :
             /\ cut[j-1] <= cut[j]
             /\ pat[j].star \/ cut[j] = cut[j-1] + 1
             /\ \A k \in (cut[j-1] + 1)..cut[j] :
                  pat[j].ch = "." \/ pat[j].ch = w[k]

(* Some prefix of s is in the language: a match at the start of s. *)
MatchesAtStart(pat, s) ==
    \E n \in 0..Len(s) : InLanguage(pat, SubSeq(s, 1, n))

(* Some substring of s is in the language: a match anywhere in s. *)
MatchesAnywhere(pat, s) ==
    \E m \in 1..(Len(s) + 1) : \E n \in (m - 1)..Len(s) :
        InLanguage(pat, SubSeq(s, m, n))

(* Indices of the interfaces of a raw mapping that carry an address. *)
WithAddress(raw) ==
    { k \in DOMAIN raw : IF "addrs" \in DOMAIN raw[k].info
                         THEN Len(raw[k].info.addrs) >= 1 ELSE FALSE }

HasPrimaryAddress(raw) == WithAddress(raw) # {}

(* addr of the first entry of the first interface that has an address *)
PrimaryAddress(raw) ==
    LET k == CHOOSE k \in WithAddress(raw) : \A m \in WithAddress(raw) : k <= m
    IN raw[k].info.addrs[1].addr

(* The interface facts of a raw mapping: iface -> {hwaddr, addrs}. *)
IfaceFacts(raw) ==
    [n \in { raw[k].iface : k \in DOMAIN raw } |->
        LET k == CHOOSE k \in DOMAIN raw : raw[k].iface = n
        IN [hwaddr |-> raw[k].info.hwaddr,
            addrs  |-> IF "addrs" \in DOMAIN raw[k].info
                       THEN raw[k].info.addrs ELSE << >>]]

HasVar(h, key) == h \in hosts /\ key \in DOMAIN hostvars[h]

Min(S) == CHOOSE x \in S : \A y \in S : x <= y
Max(S) == CHOOSE x \in S : \A y \in S : x >= y

(********************************* C1 ************************************)

(* C1: a lookupByName / interfaceAddresses failure of one matched domain *)
(* does not abort the pass: the pass does not fail on it, and once the   *)
(* pass has ended every later domain that matches the filter has its     *)
(* host, its alias group and its ansible_libvirt_ifaces written.         *)
C1_LookupFailureDoesNotAbort ==
    \A i \in Iterations :
        fetched[i] = -1 =>
            /\ pc # "Failed"
            /\ Ended =>
                 \A j \in (i + 1)..Len(servers) :
                     MatchesAtStart(filter, FilterField(j)) =>
                         /\ PrimaryKey(j) \in hosts
                         /\ AliasKey(j) \in DOMAIN groups
                         /\ HasVar(PrimaryKey(j), "ansible_libvirt_ifaces")

(********************************* C2 ************************************)

(* C2 as amended: a domain gets past the filter if and only if the       *)
(* pattern matches at the start of the policy-selected field (name under *)
(* 'name', uuid under 'uuid'); with the default pattern every domain is  *)
(* kept.                                                                  *)
C2_FilterMatchesAtStart ==
    \A i \in Iterations :
        /\ Kept(i) <=> MatchesAtStart(filter, FilterField(i))
        /\ filter = DefaultFilter => Kept(i)

(* C2 as stated: a domain is kept if and only if the pattern matches     *)
(* anywhere in the policy-selected field.                                *)
C2_FilterMatchesAnywhere ==
    \A i \in Iterations :
        /\ Kept(i) <=> MatchesAnywhere(filter, FilterField(i))
        /\ filter = DefaultFilter => Kept(i)

(* A domain was dropped although the pattern occurs later in its field, *)
(* and another one was kept.                                             *)
C2_Witness ==
    /\ \E i \in Iterations :
         ~Kept(i) /\ MatchesAnywhere(filter, FilterField(i))
    /\ \E i \in Iterations : Kept(i)

(********************************* C3 ************************************)

(* C3: under policy 'name', after a completed pass a kept domain whose   *)
(* name no other listed domain has is registered under its name, and a   *)
(* kept domain whose name is shared is registered under its uuid with    *)
(* its name as the group; two kept domains are never the same host.      *)
C3_DuplicateNamesUseUuid ==
    (pc = "Done" /\ inventory_hostname = "name") =>
        \A i \in Iterations :
            Kept(i) =>
                IF \E j \in 1..Len(servers) :
                       j # i /\ servers[j].name = servers[i].name
                THEN /\ servers[i].uuid \in hosts
                     /\ servers[i].name \in DOMAIN groups
                     /\ servers[i].uuid \in groups[servers[i].name]
                ELSE servers[i].name \in hosts

(********************************* C4 ************************************)

(* C4: when the pass has ended, normally or by an error, the hypervisor  *)
(* connection it opened has been released.                               *)
C4_ConnectionReleased == Ended => ~conn_open

(********************************* C5 ************************************)

(* C5: with use_connection_plugin the pass never sets ansible_host;      *)
(* ansible_libvirt_uri and ansible_connection are set together or not at *)
(* all, to the configured uri and the plugin of the driver kind, only    *)
(* with use_connection_plugin and driver kind LXC or QEMU, and then for  *)
(* every domain whose variables were written.                            *)
C5_ConnectionPluginVars ==
    /\ \A h \in hosts :
         /\ use_connection_plugin => ~HasVar(h, "ansible_host")
         /\ HasVar(h, "ansible_libvirt_uri") <=> HasVar(h, "ansible_connection")
         /\ HasVar(h, "ansible_connection") =>
              /\ use_connection_plugin
              /\ connection \in {"LXC", "QEMU"}
              /\ hostvars[h]["ansible_libvirt_uri"] = uri
              /\ hostvars[h]["ansible_connection"] =
                    (IF connection = "LXC" THEN "community.libvirt.libvirt_lxc"
                                           ELSE "community.libvirt.libvirt_qemu")
    /\ \A i \in Iterations :
         (Processed(i) /\ use_connection_plugin /\ connection \in {"LXC", "QEMU"})
             => HasVar(PrimaryKey(i), "ansible_connection")

(* A QEMU host written from data that carries an address: it has its   *)
(* connection variables (and, by the formula, no ansible_host).         *)
C5_Witness ==
    /\ use_connection_plugin
    /\ connection = "QEMU"
    /\ \E i \in Iterations :
         /\ Processed(i)
         /\ HasPrimaryAddress(servers[fetched[i]].raw)
         /\ HasVar(PrimaryKey(i), "ansible_connection")

(********************************* C6 ************************************)

(* C6: with use_connection_plugin off, an iteration that writes a host's *)
(* variables leaves an ansible_host the host already had untouched, and  *)
(* otherwise sets it to the addr of the first entry of the first listed  *)
(* interface that has an address, or leaves it unset if there is none.   *)
C6_AnsibleHostFirstAddress ==
    [][ (/\ ~use_connection_plugin
         /\ Len(fetched') = Len(fetched) + 1
         /\ fetched'[Len(fetched')] > 0)
        => LET i == Len(fetched')
               h == PrimaryKey(i)
               raw == servers[fetched'[i]].raw
           IN IF HasVar(h, "ansible_host")
              THEN hostvars'[h]["ansible_host"] = hostvars[h]["ansible_host"]
              ELSE IF HasPrimaryAddress(raw)
                   THEN /\ "ansible_host" \in DOMAIN hostvars'[h]
                        /\ hostvars'[h]["ansible_host"] = PrimaryAddress(raw)
                   ELSE "ansible_host" \notin DOMAIN hostvars'[h] ]_vars

(* The same host written twice from data with addresses: the second     *)
(* iteration found ansible_host set.                                     *)
C6_Witness ==
    /\ ~use_connection_plugin
    /\ \E i, j \in Iterations :
         /\ i < j
         /\ Processed(i) /\ Processed(j)
         /\ PrimaryKey(i) = PrimaryKey(j)
         /\ servers[fetched[i]].raw = RawSecondIface
         /\ HasPrimaryAddress(servers[fetched[j]].raw)
         /\ hostvars[PrimaryKey(i)]["ansible_host"] = "10.0.0.5"

(********************************* C7 ************************************)

C8_FailureBeforeConnected ==
    /\ ~conn_open =>
         /\ ~listed
         /\ hosts = {}
         /\ DOMAIN groups = {}
         /\ DOMAIN hostvars = {}
    /\ uri = None => open_calls = 0
    /\ error = "hypervisor uri not given" =>
         pc = "Failed" /\ uri = None /\ open_calls = 0
    /\ error = "hypervisor connection failure" =>
         pc = "Failed" /\ ~conn_open /\ open_calls = 1

(* The open was attempted and yielded no handle. *)
C8_Witness ==
    /\ pc = "Failed"
    /\ error = "hypervisor connection failure"
    /\ open_calls = 1
    /\ hosts = {}

(********************************* C9 ************************************)

(* Iterations that wrote the variables of host h. *)
Writers(h) == { i \in Iterations : Processed(i) /\ PrimaryKey(i) = h }

(* Those of them whose fetched data carried an address. *)
AddressWriters(h) ==
    { i \in Writers(h) : HasPrimaryAddress(servers[fetched[i]].raw) }

C10_FactsOfOwnDomain ==
    (pc = "Done" /\ inventory_hostname = "uuid") =>
        \A i \in Iterations :
            Kept(i) =>
                LET h == servers[i].uuid
                    raw == servers[i].raw
                IN /\ HasVar(h, "ansible_libvirt_ifaces")
                   /\ hostvars[h]["ansible_libvirt_ifaces"] = IfaceFacts(raw)
                   /\ ~use_connection_plugin =>
                        IF HasPrimaryAddress(raw)
                        THEN /\ HasVar(h, "ansible_host")
                             /\ hostvars[h]["ansible_host"] = PrimaryAddress(raw)
                        ELSE ~HasVar(h, "ansible_host")

=============================================================================
